---- MODULE Spec2Model ----
(***************************************************************************)
(* Signal control engine of the smart-traffic-monitoring repository.      *)
(*                                                                         *)
(*   SignalController        src/src/signal_controller.py                  *)
(*   EmergencyPrioritySystem src/minor_real/backend/app/ml/                *)
(*                           emergency_priority.py                         *)
(*                                                                         *)
(* Clock readings are whole seconds.  Green durations and time_remaining   *)
(* are carried in tenths of a second, so that the product of a duration    *)
(* and a multiplier such as 1.5 is exact; priorities are carried in tenths *)
(* for the same reason (the 1.2 trend bonus).                              *)
(***************************************************************************)
EXTENDS Integers, Sequences, FiniteSets, TLC

VARIABLES
    \* ---- SignalController (src/src/signal_controller.py)
    num_lanes,          \* self.num_lanes
    config,             \* self.config
    signals,            \* self.signals: lane -> [state, time_remaining, cycle_start, green_time]
    active_lane,        \* self.active_lane
    cycle_count,        \* self.cycle_count
    next_lane,          \* self.next_lane (written by handle_emergency, never read)
    emergency_mode,     \* self.emergency_mode (written by handle_emergency, never read)
    now,                \* the last reading of time.time()
    \* history of the controller, used to state properties only
    pending_request,    \* lane of the emergency request accepted since the last selection
    served_request,     \* the request that was pending when the last selection ran
    granted_input,      \* what the analysis said of the lane selected last, in that tick
    preempted_at,       \* the clock reading at which handle_emergency cut the current
                        \* GREEN short (NoTime if it did not)
    \* ---- one evaluation of calculate_green_time
    gt_config,          \* the configuration it is evaluated under
    gt_density,         \* lane_density['current'], or NoDensity before the first call
    gt_result,          \* the value returned, in tenths of a second
    \* ---- EmergencyPrioritySystem (backend, emergency_priority.py)
    active_overrides,   \* self.active_overrides: the slots of the dict, in insertion order
    utcnow,             \* the last reading of datetime.utcnow(), in seconds
    db_signals,         \* the signals collection: location_id -> its document
    tasks,              \* the calls in flight on the event loop
    \* history of the priority system, used to state properties only
    issued,             \* the override ids assigned so far
    requests,           \* the number of requests that were assigned an id
    \* ---- two runs of one SignalController fed the same ticks
    replay_runs,        \* run -> [signals, active_lane, cycle_count, clock]
    replay_time,        \* the time after which the next tick is fed to both runs
    \* ---- one selection of switch_to_next_lane
    selection,          \* [lanes, finished, result]: the analysis, self.active_lane
                        \* before the selection, and next_lane (NoLane before the call)
    \* ---- TrafficAnalyzer (src/traffic_analyzer.py)
    history_size,       \* self.history_size
    lane_history,       \* self.lane_history: lane -> the deque of its counts
    lane_info,          \* analysis['lanes'] of the last update: lane -> vehicles, density
    congestion,         \* the last get_congestion_level: [lane, thresholds, level]
    \* history of the analyzer, used to state properties only
    arrived,            \* lane -> every count update was given for it, in order
    \* ---- a frame loop whose analysis is the same at every tick
    steady_lanes        \* analysis['lanes'] of every tick

varsSC == <<num_lanes, config, signals, active_lane, cycle_count, next_lane,
            emergency_mode, now, pending_request, served_request, granted_input,
            preempted_at>>

varsGT == <<gt_config, gt_density, gt_result>>

varsEP == <<active_overrides, utcnow, db_signals, tasks, issued, requests>>

varsReplay == <<replay_runs, replay_time>>

varsSel == <<selection>>

varsTA == <<history_size, lane_history, lane_info, congestion, arrived>>

varsSteady == <<steady_lanes>>

\* ---------------------------------------------------------------- bounds
MaxLanes == 3
MaxTime == 18
\* densities 0 .. MaxDensity are tried, and FarDensity far above the high threshold
MaxDensity == 31
FarDensity == 1000
\* calls of the priority system in flight at once, requests made, last clock reading
MaxTasks == 2
MaxRequests == 3
MaxClock == 61
\* two runs side by side: number of lanes, and the last clock reading
ReplayLanes == 2
ReplayMaxTime == 24
\* a controller that runs for ever: its lanes, and how far its cycle counter is followed
ForEverLanes == 2
MaxCycles == 3
\* the analyzer: lanes, capacity of a lane's history, frames analysed
AnalyzerLanes == 2
\* lanes of the controller run with emergency_priority off
FlagOffLanes == 3
HistorySize == 7
MaxFrames == 9

\* ---------------------------------------------------------------- helpers
Max(a, b) == IF a >= b THEN a ELSE b
Min(a, b) == IF a <= b THEN a ELSE b

NoLane == -1
NoDensity == -1
NoTime == -1

\* SignalState
RED == "RED"
YELLOW == "YELLOW"
GREEN == "GREEN"
ALL_RED == "ALL_RED"
SignalState == {RED, YELLOW, GREEN, ALL_RED}

\* ---------------------------------------------------------------- configuration
\* The default configuration of SignalController.__init__; multipliers in tenths.
DefaultConfig ==
    [ min_green_time       |-> 10,
      max_green_time       |-> 60,
      yellow_time          |-> 3,
      all_red_time         |-> 2,
      adaptive_mode        |-> TRUE,
      emergency_priority   |-> TRUE,
      emergency_green_time |-> 30,
      density_thresholds   |-> [low |-> 5, medium |-> 15, high |-> 30],
      time_multipliers     |-> [low |-> 10, medium |-> 15, high |-> 20] ]

\* self.config.update(config): the configurations the controller is constructed
\* with here are the default and the default with emergency_priority switched off.
ControllerConfigs ==
    { [DefaultConfig EXCEPT !.emergency_priority = e] : e \in BOOLEAN }

Lanes == 0 .. (num_lanes - 1)

\* ---------------------------------------------------------------- inputs
\* What TrafficAnalyzer.update reports for one lane: the emergency count and the
\* density (current, trend) of the lane.
LaneInputs ==
    { [emergency |-> 0, current |-> 0,  trend |-> "stable"],
      [emergency |-> 0, current |-> 25, trend |-> "increasing"],
      [emergency |-> 0, current |-> 30, trend |-> "stable"],
      [emergency |-> 1, current |-> 0,  trend |-> "stable"],
      [emergency |-> 1, current |-> 30, trend |-> "stable"] }

\* analysis['lanes'] for n lanes
Analyses(n) == [0 .. (n - 1) -> LaneInputs]

\* analysis['has_emergency'] = emergency_in_frame > 0
has_emergency(lanes) == \E l \in DOMAIN lanes : lanes[l].emergency > 0

\* Seconds between two calls of update
TickSteps == {2, 10}

\* ---------------------------------------------------------------- calculate_green_time
\* A calculate_green_time that forgets the upper bound.
calculate_green_time_NoUpperBound(cfg, current_density) ==
    IF ~cfg.adaptive_mode
    THEN cfg.min_green_time * 10
    ELSE LET multiplier ==
                 IF current_density >= cfg.density_thresholds.high
                 THEN cfg.time_multipliers.high
                 ELSE IF current_density >= cfg.density_thresholds.medium
                      THEN cfg.time_multipliers.medium
                      ELSE cfg.time_multipliers.low
         IN  Max(cfg.min_green_time * 10, cfg.min_green_time * multiplier)

\* A calculate_green_time whose density levels begin above the thresholds.
calculate_green_time_AboveThreshold(cfg, current_density) ==
    IF ~cfg.adaptive_mode
    THEN cfg.min_green_time * 10
    ELSE LET multiplier ==
                 IF current_density > cfg.density_thresholds.high
                 THEN cfg.time_multipliers.high
                 ELSE IF current_density > cfg.density_thresholds.medium
                      THEN cfg.time_multipliers.medium
                      ELSE cfg.time_multipliers.low
             green_time == cfg.min_green_time * multiplier
         IN  Max(cfg.min_green_time * 10, Min(green_time, cfg.max_green_time * 10))

\* SignalController.calculate_green_time, result in tenths of a second.
calculate_green_time(cfg, current_density) ==
    IF ~cfg.adaptive_mode
    THEN cfg.min_green_time * 10
    ELSE LET multiplier ==
                 IF current_density >= cfg.density_thresholds.high
                 THEN cfg.time_multipliers.high
                 ELSE IF current_density >= cfg.density_thresholds.medium
                      THEN cfg.time_multipliers.medium
                      ELSE cfg.time_multipliers.low
             green_time == cfg.min_green_time * multiplier
         IN  Max(cfg.min_green_time * 10, Min(green_time, cfg.max_green_time * 10))

\* ---------------------------------------------------------------- handle_emergency
\* The lane update() passes to handle_emergency: the first lane of the analysis
\* with an emergency count above zero (the loop breaks after it).
FirstEmergencyLane(lanes) ==
    IF has_emergency(lanes)
    THEN CHOOSE l \in DOMAIN lanes :
            /\ lanes[l].emergency > 0
            /\ \A m \in DOMAIN lanes : lanes[m].emergency > 0 => l <= m
    ELSE NoLane

\* handle_emergency changes state only with emergency_priority on and for a lane
\* other than the active one.
EmergencyAccepted(cfg, active, lane_id) ==
    /\ lane_id # NoLane
    /\ cfg.emergency_priority
    /\ active # lane_id

\* A controller that hands GREEN to the emergency lane at once.
handle_emergency_DirectGreen(cfg, sig, active, lane_id) ==
    IF EmergencyAccepted(cfg, active, lane_id)
    THEN [sig EXCEPT ![lane_id].state = GREEN]
    ELSE sig

\* The signals after handle_emergency(lane_id).
handle_emergency(cfg, sig, active, lane_id) ==
    IF EmergencyAccepted(cfg, active, lane_id) /\ sig[active].state = GREEN
    THEN [sig EXCEPT ![active].state = YELLOW,
                     ![active].time_remaining = cfg.yellow_time * 10]
    ELSE sig

\* ---------------------------------------------------------------- switch_to_next_lane
\* The priority of a lane, in tenths.
LanePriority(lanes, active, lane_id) ==
    IF lane_id = active
    THEN -10
    ELSE IF lanes[lane_id].emergency > 0
         THEN 10000
         ELSE IF lanes[lane_id].trend = "increasing"
              THEN lanes[lane_id].current * 12
              ELSE lanes[lane_id].current * 10

\* A selection that takes the last of the lanes whose priority is maximal.
SelectNextLane_LastMax(lanes, active) ==
    CHOOSE l \in DOMAIN lanes :
        /\ \A m \in DOMAIN lanes :
              LanePriority(lanes, active, m) <= LanePriority(lanes, active, l)
        /\ \A m \in DOMAIN lanes :
              m > l => LanePriority(lanes, active, m) < LanePriority(lanes, active, l)

\* max(priorities, key=priorities.get): the first lane, in the order of
\* range(num_lanes), whose priority is maximal.
SelectNextLane(lanes, active) ==
    CHOOSE l \in DOMAIN lanes :
        /\ \A m \in DOMAIN lanes :
              LanePriority(lanes, active, m) <= LanePriority(lanes, active, l)
        /\ \A m \in DOMAIN lanes :
              m < l => LanePriority(lanes, active, m) < LanePriority(lanes, active, l)

\* A switch that sizes every green phase from the density alone.
GrantedGreenTime_DensityOnly(cfg, lanes, lane_id) ==
    calculate_green_time(cfg, lanes[lane_id].current)

\* The green time granted to the selected lane, in tenths.
GrantedGreenTime(cfg, lanes, lane_id) ==
    IF lanes[lane_id].emergency > 0
    THEN cfg.emergency_green_time * 10
    ELSE calculate_green_time(cfg, lanes[lane_id].current)

\* A switch that leaves the selected lane as it is.
ActivateLane_StayRed(cfg, sig, lanes, lane_id, t) == sig

\* The signals after switch_to_next_lane has activated lane_id at clock reading t.
ActivateLane(cfg, sig, lanes, lane_id, t) ==
    [sig EXCEPT ![lane_id] =
        [ state          |-> GREEN,
          cycle_start    |-> t,
          green_time     |-> GrantedGreenTime(cfg, lanes, lane_id),
          time_remaining |-> GrantedGreenTime(cfg, lanes, lane_id) ]]

\* ---------------------------------------------------------------- update
\* A switch that counts itself twice.
CountSwitch_Twice(cycles) == cycles + 2

\* self.cycle_count += 1
CountSwitch(cycles) == cycles + 1

\* An update that goes on to the selection without turning the lanes RED.
AllRed_Skip(sig, active, t) == sig

\* "All signals to red briefly"
AllRed(sig, active, t) ==
    [l \in DOMAIN sig |->
        IF l = active
        THEN [sig[l] EXCEPT !.state = RED, !.cycle_start = t]
        ELSE [sig[l] EXCEPT !.state = RED]]

\* A refresh that also restarts the phase of the active lane at every call.
RefreshTimeRemaining_RestartPhase(sig, active, time_elapsed) ==
    [sig EXCEPT ![active].time_remaining =
                    Max(0, sig[active].green_time - time_elapsed * 10),
                ![active].cycle_start = sig[active].cycle_start + time_elapsed]

\* "Update time remaining for all signals": only the active lane is touched.
RefreshTimeRemaining(sig, active, time_elapsed) ==
    [sig EXCEPT ![active].time_remaining =
        Max(0, sig[active].green_time - time_elapsed * 10)]

\* An update that ends a GREEN only once its green_time is exceeded.
GreenExpired_Strict(sig, active, time_elapsed) ==
    /\ sig[active].state = GREEN
    /\ time_elapsed * 10 > sig[active].green_time

\* "Check if current signal should change": the GREEN of the active lane has
\* run for its green_time (tenths) after time_elapsed seconds.
GreenExpired(sig, active, time_elapsed) ==
    /\ sig[active].state = GREEN
    /\ time_elapsed * 10 >= sig[active].green_time

\* SignalController.update(analysis), called dt seconds after the last clock reading.
update(dt, lanes) ==
    LET current_time == now + dt
        em           == FirstEmergencyLane(lanes)
        accepted     == EmergencyAccepted(config, active_lane, em)
        s1           == handle_emergency(config, signals, active_lane, em)
        time_elapsed == current_time - s1[active_lane].cycle_start
        toYellow     == GreenExpired(s1, active_lane, time_elapsed)
        toRed        == /\ s1[active_lane].state = YELLOW
                        /\ time_elapsed >= config.yellow_time
        \* time.sleep(all_red_time) runs inside update
        switch_time  == current_time + config.all_red_time
        pending1     == IF accepted THEN em ELSE pending_request
        preempted    == accepted /\ signals[active_lane].state = GREEN
    IN  /\ current_time + config.all_red_time <= MaxTime
        /\ next_lane' = IF accepted THEN em ELSE next_lane
        /\ emergency_mode' = (emergency_mode \/ accepted)
        /\ IF toRed
           THEN \E selected \in {SelectNextLane(lanes, active_lane)} :
                /\ active_lane' = selected
                /\ signals' = RefreshTimeRemaining(
                                  ActivateLane(config, AllRed(s1, active_lane, current_time),
                                               lanes, selected, switch_time),
                                  selected, time_elapsed)
                /\ cycle_count' = CountSwitch(cycle_count)
                /\ now' = switch_time
                /\ pending_request' = NoLane
                /\ served_request' = pending1
                /\ granted_input' = lanes[selected]
                /\ preempted_at' = NoTime
           ELSE /\ active_lane' = active_lane
                /\ signals' = RefreshTimeRemaining(
                                  IF toYellow
                                  THEN [s1 EXCEPT ![active_lane].state = YELLOW,
                                                  ![active_lane].cycle_start = current_time,
                                                  ![active_lane].time_remaining =
                                                        config.yellow_time * 10]
                                  ELSE s1,
                                  active_lane, time_elapsed)
                /\ cycle_count' = cycle_count
                /\ now' = current_time
                /\ pending_request' = pending1
                /\ preempted_at' = IF preempted THEN current_time ELSE preempted_at
                /\ UNCHANGED <<served_request, granted_input>>
        /\ UNCHANGED <<num_lanes, config>>

\* SignalController.__init__(num_lanes, config) at clock reading 0.
InitController ==
    /\ num_lanes \in 1 .. MaxLanes
    /\ config \in ControllerConfigs
    /\ now = 0
    /\ signals = [i \in 0 .. (num_lanes - 1) |->
                    IF i = 0
                    THEN [ state          |-> GREEN,
                           time_remaining |-> config.min_green_time * 10,
                           cycle_start    |-> 0,
                           green_time     |-> config.min_green_time * 10 ]
                    ELSE [ state          |-> RED,
                           time_remaining |-> 0,
                           cycle_start    |-> 0,
                           green_time     |-> config.min_green_time * 10 ]]
    /\ active_lane = 0
    /\ cycle_count = 0
    /\ next_lane = NoLane
    /\ emergency_mode = FALSE
    /\ pending_request = NoLane
    /\ served_request = NoLane
    /\ granted_input = [emergency |-> 0, current |-> 0, trend |-> "stable"]
    /\ preempted_at = NoTime

\* Whether update, called dt seconds after the last clock reading with an analysis
\* whose first emergency lane is em, reaches switch_to_next_lane.
ReachesSwitch(dt, em) ==
    LET s1 == handle_emergency(config, signals, active_lane, em)
    IN  /\ s1[active_lane].state = YELLOW
        /\ (now + dt) - s1[active_lane].cycle_start >= config.yellow_time

\* The analyses for n lanes whose first emergency lane is em (NoLane: no
\* emergency at all), tabulated by n and em.
AnalysesWith ==
    [n \in 1 .. MaxLanes |->
        [em \in (0 .. (n - 1)) \cup {NoLane} |->
            { lanes \in Analyses(n) : FirstEmergencyLane(lanes) = em }]]

\* One analysis whose first emergency lane is em.
AnalysisWith(n, em) ==
    [l \in 0 .. (n - 1) |->
        [emergency |-> IF l = em THEN 1 ELSE 0, current |-> 0, trend |-> "stable"]]

\* One call of update by the frame loop (main.py, process_frame).  update reads the
\* analysis beyond its first emergency lane only in switch_to_next_lane, so the
\* analyses are enumerated in full only for the calls that reach it.
Tick ==
    \E dt \in TickSteps : \E em \in Lanes \cup {NoLane} :
        IF ReachesSwitch(dt, em)
        THEN \E lanes \in AnalysesWith[num_lanes][em] : update(dt, lanes)
        ELSE update(dt, AnalysisWith(num_lanes, em))

\* ---------------------------------------------------------------- green-time evaluations
\* Configurations with min_green_time <= max_green_time: the bounds and the three
\* multipliers (tenths: 0.5, 1.0, 1.5, 2.0, 10.0) vary, in both modes.
GreenTimeConfigs ==
    { [DefaultConfig EXCEPT !.min_green_time = b[1], !.max_green_time = b[2],
                            !.adaptive_mode = a,
                            !.time_multipliers = [low |-> m[1], medium |-> m[2], high |-> m[3]]] :
        b \in { <<1, 1>>, <<10, 10>>, <<10, 12>>, <<10, 60>>, <<45, 60>> },
        a \in BOOLEAN,
        m \in { <<10, 15, 20>>, <<5, 10, 100>>, <<20, 15, 5>> } }

Densities == (0 .. MaxDensity) \cup {FarDensity}

InitGreenTime ==
    /\ gt_config \in GreenTimeConfigs
    /\ gt_density = NoDensity
    /\ gt_result = 0

\* One call calculate_green_time({'current': d}).
EvaluateGreenTime ==
    \E d \in Densities :
        /\ gt_density' = d
        /\ gt_result' = calculate_green_time(gt_config, d)
        /\ UNCHANGED gt_config

\* ================================================================ EmergencyPrioritySystem
\* ---------------------------------------------------------------- constructor arguments
\* EmergencyPrioritySystem(priority_duration=60), as main.py constructs it
priority_duration == 60
\* backend SignalController(max_green_time=120, default_green_time=30)
backend_max_green_time == 120
backend_default_green_time == 30

\* ---------------------------------------------------------------- inputs
Locations == {"J1"}
Directions == {"north", "south"}
\* emergency_vehicles: the class names of the detections
VehicleLists == { <<>>, <<"car">> }
\* Seconds the clock moves between two readings that differ
ClockSteps == {59, 60, 61}

\* ---------------------------------------------------------------- the dict active_overrides
\* A Python dict keeps its entries in insertion order and leaves a dummy slot
\* where an entry was deleted; an iterator walks the slots.  (The slots are
\* compacted only when the dict is resized, which takes more than five
\* insertions: MaxRequests stays below that.)
Dummy == [live |-> FALSE]

DictSlot(k, v) == [live |-> TRUE, key |-> k, data |-> v]

\* len(d)
DictSize(d) == Cardinality({i \in DOMAIN d : d[i].live})

\* d.keys()
DictKeys(d) == {d[i].key : i \in {j \in DOMAIN d : d[j].live}}

\* the slot of key k
SlotOf(d, k) == CHOOSE i \in DOMAIN d : d[i].live /\ d[i].key = k

\* d[k]
DictGet(d, k) == d[SlotOf(d, k)].data

\* d[k] = v
DictPut(d, k, v) ==
    IF k \in DictKeys(d)
    THEN [d EXCEPT ![SlotOf(d, k)] = DictSlot(k, v)]
    ELSE Append(d, DictSlot(k, v))

\* del d[k], for k in d
DictDel(d, k) == [d EXCEPT ![SlotOf(d, k)] = Dummy]

\* ---------------------------------------------------------------- priority_override
\* SignalController.priority_override(direction, priority_level) of the backend.
priority_override(direction, priority_level, timestamp) ==
    [ direction      |-> direction,
      green_time     |-> IF priority_level = "emergency"
                         THEN backend_max_green_time
                         ELSE IF priority_level = "public_transport"
                              THEN backend_default_green_time + 15
                              ELSE backend_default_green_time,
      clear_time     |-> IF priority_level = "emergency"
                         THEN 10
                         ELSE IF priority_level = "public_transport" THEN 5 ELSE 0,
      priority_level |-> priority_level,
      timestamp      |-> timestamp ]

\* _classify_emergency_type
classify_emergency_type(emergency_vehicles) ==
    LET vehicle_types == {emergency_vehicles[i] : i \in DOMAIN emergency_vehicles}
    IN  IF emergency_vehicles = <<>>
        THEN "emergency"
        ELSE IF "bus" \in vehicle_types \/ "truck" \in vehicle_types
             THEN "fire"
             ELSE IF "car" \in vehicle_types THEN "ambulance" ELSE "emergency"

\* An id that names one lane, whatever the time of the request.
OverrideId_PerLane(location_id, direction, timestamp) == <<location_id, direction, 0>>

\* override_id = f"{location_id}_{direction}_{datetime.utcnow().timestamp()}"
OverrideId(location_id, direction, timestamp) == <<location_id, direction, timestamp>>

\* The record stored under the override id.
OverrideData(location_id, direction, emergency_vehicles, t) ==
    [ location_id     |-> location_id,
      direction       |-> direction,
      emergency_type  |-> classify_emergency_type(emergency_vehicles),
      vehicle_count   |-> Len(emergency_vehicles),
      started_at      |-> t,
      expires_at      |-> t + priority_duration,
      override_config |-> priority_override(direction, "emergency", t) ]

\* ---------------------------------------------------------------- the signals collection
NoDocument == [exists |-> FALSE, emergency_override |-> FALSE, priority_direction |-> "None"]

\* _apply_signal_override: update_one(..., upsert=True); an exception of the
\* database is logged and swallowed (ok = FALSE).
apply_signal_override(db, location_id, priority_direction, ok) ==
    IF ok
    THEN [db EXCEPT ![location_id] =
            [exists |-> TRUE, emergency_override |-> TRUE,
             priority_direction |-> priority_direction]]
    ELSE db

\* _clear_signal_override: update_one without upsert touches an existing document only.
clear_signal_override(db, location_id, ok) ==
    IF ok /\ db[location_id].exists
    THEN [db EXCEPT ![location_id] =
            [exists |-> TRUE, emergency_override |-> FALSE, priority_direction |-> "None"]]
    ELSE db

\* ---------------------------------------------------------------- calls in flight
TaskIds == 1 .. MaxTasks

NoId == <<"None", "None", -1>>
\* an id no request has produced
UnknownId == <<"J1", "north", -7>>

NoResult == [status |-> "none"]

IdleTask ==
    [ op           |-> "idle",   \* the coroutine: request, sweep, clear
      pc           |-> "idle",   \* idle, or the await it is suspended in, or done / raised
      id           |-> NoId,     \* override_id
      location_id  |-> "None",   \* the location whose document the awaited update is for
      direction    |-> "None",
      current_time |-> 0,        \* current_time of check_expired_overrides
      pos          |-> 0,        \* the dict iterator: the last slot visited,
      used         |-> 0,        \*   len(dict) when the iteration began,
      remaining    |-> 0,        \*   the entries it has yet to yield
      expired      |-> <<>>,     \* the list expired
      result       |-> NoResult ]

Finished(task) == task.pc \in {"done", "raised"}

\* A call that has ended, by return (done) or by exception (raised): its locals
\* are gone, its outcome awaits delivery.
Ended(task, pc, result) ==
    [IdleTask EXCEPT !.op = task.op, !.pc = pc, !.id = task.id,
                     !.current_time = task.current_time, !.result = result]

\* The slot a new call takes: the lowest idle one.  With serial = TRUE a call
\* starts only when no other call is in flight.
MayStart(serial, t) ==
    /\ tasks[t].pc = "idle"
    /\ \A u \in TaskIds : u < t => tasks[u].pc # "idle"
    /\ serial => \A u \in TaskIds : tasks[u].pc = "idle"

\* ---------------------------------------------------------------- handle_emergency_detection
\* Lines 57-82: up to the first await.  The override is stored under its id.
StartRequest(serial, t, location_id, direction, emergency_vehicles) ==
    /\ MayStart(serial, t)
    /\ IF emergency_vehicles = <<>>
       THEN /\ tasks' = [tasks EXCEPT ![t] =
                  [IdleTask EXCEPT !.op = "request", !.pc = "done",
                      !.result = [status |-> "no_emergency", override |-> FALSE]]]
            /\ UNCHANGED <<active_overrides, issued, requests>>
       ELSE /\ requests < MaxRequests
            /\ active_overrides' =
                  DictPut(active_overrides, OverrideId(location_id, direction, utcnow),
                          OverrideData(location_id, direction, emergency_vehicles, utcnow))
            /\ issued' = issued \cup {OverrideId(location_id, direction, utcnow)}
            /\ requests' = requests + 1
            /\ tasks' = [tasks EXCEPT ![t] =
                  [IdleTask EXCEPT !.op = "request", !.pc = "apply",
                      !.id = OverrideId(location_id, direction, utcnow),
                      !.location_id = location_id, !.direction = direction]]
    /\ UNCHANGED <<utcnow, db_signals>>

\* await self._apply_signal_override(...) completes.
RequestApplied(t) ==
    /\ tasks[t].op = "request" /\ tasks[t].pc = "apply"
    /\ \E ok \in BOOLEAN :
          db_signals' = apply_signal_override(db_signals, tasks[t].location_id,
                                              tasks[t].direction, ok)
    /\ tasks' = [tasks EXCEPT ![t].pc = "log"]
    /\ UNCHANGED <<active_overrides, utcnow, issued, requests>>

\* await self._log_emergency_event(...) completes and the response is built from
\* self.active_overrides[override_id] (lines 90-101): KeyError if it is gone.
RequestReturns(t) ==
    /\ tasks[t].op = "request" /\ tasks[t].pc = "log"
    /\ tasks' = [tasks EXCEPT ![t] =
          IF tasks[t].id \in DictKeys(active_overrides)
          THEN Ended(tasks[t], "done",
                  [ status      |-> "emergency_override_active",
                    override    |-> TRUE,
                    override_id |-> tasks[t].id,
                    green_time  |-> DictGet(active_overrides, tasks[t].id)
                                        .override_config.green_time,
                    clear_time  |-> DictGet(active_overrides, tasks[t].id)
                                        .override_config.clear_time,
                    expires_at  |-> DictGet(active_overrides, tasks[t].id).expires_at ])
          ELSE Ended(tasks[t], "raised", [status |-> "KeyError"])]
    /\ UNCHANGED <<active_overrides, utcnow, db_signals, issued, requests>>

\* ---------------------------------------------------------------- check_expired_overrides
\* current_time >= override_data["expires_at"]
IsExpired(current_time, override_data) == current_time >= override_data.expires_at

\* The for loop over self.active_overrides.items() from the slot after pos, up to
\* the next expired entry (where it awaits), the end of the dict, or the
\* iterator's complaint that the keys changed.
RECURSIVE NextExpired(_, _, _, _)
NextExpired(d, pos, remaining, current_time) ==
    LET later == {i \in DOMAIN d : i > pos /\ d[i].live}
        i     == CHOOSE j \in later : \A k \in later : j <= k
    IN  IF later = {}
        THEN [kind |-> "end", pos |-> pos, remaining |-> remaining]
        ELSE IF remaining = 0
             THEN [kind |-> "keys_changed", pos |-> pos, remaining |-> remaining]
             ELSE IF IsExpired(current_time, d[i].data)
                  THEN [kind |-> "expired", pos |-> i, remaining |-> remaining - 1]
                  ELSE NextExpired(d, i, remaining - 1, current_time)

\* for override_id in expired: del self.active_overrides[override_id]
\* (ok = FALSE: KeyError at the first id that is no longer stored).
RECURSIVE DeleteExpired(_, _)
DeleteExpired(d, expired) ==
    IF expired = <<>>
    THEN [dict |-> d, ok |-> TRUE]
    ELSE IF Head(expired) \notin DictKeys(d)
         THEN [dict |-> d, ok |-> FALSE]
         ELSE DeleteExpired(DictDel(d, Head(expired)), Tail(expired))

\* check_expired_overrides from where task stands to its next await or its end:
\* the task and the dict afterwards.
SweepRun(task, d) ==
    IF task.used # DictSize(d)
    THEN [ task |-> Ended(task, "raised", [status |-> "RuntimeError"]), dict |-> d ]
    ELSE LET r == NextExpired(d, task.pos, task.remaining, task.current_time)
             deleted == DeleteExpired(d, task.expired)
         IN  IF r.kind = "expired"
             THEN [ task |-> [task EXCEPT !.pc = "clearing", !.pos = r.pos,
                                 !.remaining = r.remaining,
                                 !.expired = Append(@, d[r.pos].key),
                                 !.location_id = d[r.pos].data.location_id],
                    dict |-> d ]
             ELSE IF r.kind = "keys_changed"
                  THEN [ task |-> Ended(task, "raised", [status |-> "RuntimeError"]),
                         dict |-> d ]
                  ELSE IF deleted.ok
                       THEN [ task |-> Ended(task, "done",
                                             [status |-> "swept",
                                              cleared |-> Len(task.expired)]),
                              dict |-> deleted.dict ]
                       ELSE [ task |-> Ended(task, "raised", [status |-> "KeyError"]),
                              dict |-> deleted.dict ]

\* The call of check_expired_overrides, up to its first await.
StartSweep(serial, t) ==
    /\ MayStart(serial, t)
    /\ LET begun == [IdleTask EXCEPT !.op = "sweep", !.current_time = utcnow,
                        !.used = DictSize(active_overrides),
                        !.remaining = DictSize(active_overrides)]
           r     == SweepRun(begun, active_overrides)
       IN  /\ tasks' = [tasks EXCEPT ![t] = r.task]
           /\ active_overrides' = r.dict
    /\ UNCHANGED <<utcnow, db_signals, issued, requests>>

\* await self._clear_signal_override(...) completes inside the loop.
SweepResumes(t) ==
    /\ tasks[t].op = "sweep" /\ tasks[t].pc = "clearing"
    /\ \E ok \in BOOLEAN :
          db_signals' = clear_signal_override(db_signals, tasks[t].location_id, ok)
    /\ LET r == SweepRun(tasks[t], active_overrides)
       IN  /\ tasks' = [tasks EXCEPT ![t] = r.task]
           /\ active_overrides' = r.dict
    /\ UNCHANGED <<utcnow, issued, requests>>

\* ---------------------------------------------------------------- manual_clear_override
\* del self.active_overrides[override_id] of manual_clear_override
ClearOverride(d, k) == DictDel(d, k)

\* The ids a caller may pass: every id handed out so far, and one never handed out.
ClearableIds == issued \cup {UnknownId}

\* Lines 265-269: up to the await.
StartClear(serial, t, override_id) ==
    /\ MayStart(serial, t)
    /\ tasks' = [tasks EXCEPT ![t] =
          IF override_id \notin DictKeys(active_overrides)
          THEN [IdleTask EXCEPT !.op = "clear", !.pc = "done", !.id = override_id,
                   !.result = [status |-> "cleared", success |-> FALSE]]
          ELSE [IdleTask EXCEPT !.op = "clear", !.pc = "clearing", !.id = override_id,
                   !.location_id = DictGet(active_overrides, override_id).location_id]]
    /\ UNCHANGED <<active_overrides, utcnow, db_signals, issued, requests>>

\* await self._clear_signal_override(...) completes; lines 270-273.
ClearResumes(t) ==
    /\ tasks[t].op = "clear" /\ tasks[t].pc = "clearing"
    /\ \E ok \in BOOLEAN :
          db_signals' = clear_signal_override(db_signals, tasks[t].location_id, ok)
    /\ IF tasks[t].id \in DictKeys(active_overrides)
       THEN /\ active_overrides' = ClearOverride(active_overrides, tasks[t].id)
            /\ tasks' = [tasks EXCEPT ![t] =
                  Ended(tasks[t], "done", [status |-> "cleared", success |-> TRUE])]
       ELSE /\ active_overrides' = active_overrides
            /\ tasks' = [tasks EXCEPT ![t] =
                  Ended(tasks[t], "raised", [status |-> "KeyError"])]
    /\ UNCHANGED <<utcnow, issued, requests>>

\* get_active_overrides
get_active_overrides(d) ==
    { [override_id |-> d[i].key, data |-> d[i].data] : i \in {j \in DOMAIN d : d[j].live} }

\* ---------------------------------------------------------------- environment
\* The response of a finished call has been delivered.
Reap(t) ==
    /\ Finished(tasks[t])
    /\ tasks' = [tasks EXCEPT ![t] = IdleTask]
    /\ UNCHANGED <<active_overrides, utcnow, db_signals, issued, requests>>

\* datetime.utcnow() moves on.
AdvanceClock ==
    /\ \E dt \in ClockSteps :
          /\ utcnow + dt <= MaxClock
          /\ utcnow' = utcnow + dt
    /\ UNCHANGED <<active_overrides, db_signals, tasks, issued, requests>>

InitOverrides ==
    /\ active_overrides = <<>>
    /\ utcnow = 0
    /\ db_signals = [l \in Locations |-> NoDocument]
    /\ tasks = [t \in TaskIds |-> IdleTask]
    /\ issued = {}
    /\ requests = 0

OverridesNext(serial) ==
    \/ \E t \in TaskIds, l \in Locations, d \in Directions, v \in VehicleLists :
          StartRequest(serial, t, l, d, v)
    \/ \E t \in TaskIds : RequestApplied(t)
    \/ \E t \in TaskIds : RequestReturns(t)
    \/ \E t \in TaskIds : StartSweep(serial, t)
    \/ \E t \in TaskIds : SweepResumes(t)
    \/ \E t \in TaskIds, id \in ClearableIds : StartClear(serial, t, id)
    \/ \E t \in TaskIds : ClearResumes(t)
    \/ \E t \in TaskIds : Reap(t)
    \/ AdvanceClock

\* ================================================================ update as a function
\* The controller as a value: [signals, active_lane, cycle_count, clock], clock
\* being the last reading of time.time() the controller made.
ControllerState(sig, active, cycles, clock) ==
    [signals |-> sig, active_lane |-> active, cycle_count |-> cycles, clock |-> clock]

\* SignalController.__init__(n, cfg) at clock reading 0
NewController(cfg, n) ==
    ControllerState(
        [i \in 0 .. (n - 1) |->
            IF i = 0
            THEN [ state          |-> GREEN,
                   time_remaining |-> cfg.min_green_time * 10,
                   cycle_start    |-> 0,
                   green_time     |-> cfg.min_green_time * 10 ]
            ELSE [ state          |-> RED,
                   time_remaining |-> 0,
                   cycle_start    |-> 0,
                   green_time     |-> cfg.min_green_time * 10 ]],
        0, 0, 0)

\* Whether update(lanes), reading the clock as current_time, reaches switch_to_next_lane
\* from controller st.
Switches(cfg, st, current_time, lanes) ==
    LET s1 == handle_emergency(cfg, st.signals, st.active_lane, FirstEmergencyLane(lanes))
    IN  /\ s1[st.active_lane].state = YELLOW
        /\ current_time - s1[st.active_lane].cycle_start >= cfg.yellow_time

\* The controller after update(lanes) that read the clock as current_time at its
\* start and whose time.sleep(all_red_time), if it got that far, returned slept
\* seconds later (switch_to_next_lane reads the clock again after it).
UpdateResult(cfg, st, current_time, slept, lanes) ==
    LET active       == st.active_lane
        s1           == handle_emergency(cfg, st.signals, active, FirstEmergencyLane(lanes))
        time_elapsed == current_time - s1[active].cycle_start
        toYellow     == GreenExpired(s1, active, time_elapsed)
        toRed        == /\ s1[active].state = YELLOW
                        /\ time_elapsed >= cfg.yellow_time
        selected     == SelectNextLane(lanes, active)
    IN  IF toRed
        THEN ControllerState(
                 RefreshTimeRemaining(
                     ActivateLane(cfg, AllRed(s1, active, current_time),
                                  lanes, selected, current_time + slept),
                     selected, time_elapsed),
                 selected, CountSwitch(st.cycle_count), current_time + slept)
        ELSE ControllerState(
                 RefreshTimeRemaining(
                     IF toYellow
                     THEN [s1 EXCEPT ![active].state = YELLOW,
                                     ![active].cycle_start = current_time,
                                     ![active].time_remaining = cfg.yellow_time * 10]
                     ELSE s1,
                     active, time_elapsed),
                 active, st.cycle_count, current_time)

\* The response update returns: active lane, cycle count, and state and
\* time_remaining of every lane.
Snapshot(st) ==
    [ active_lane |-> st.active_lane,
      cycle_count |-> st.cycle_count,
      signals     |-> [l \in DOMAIN st.signals |->
                          [ state          |-> st.signals[l].state,
                            time_remaining |-> st.signals[l].time_remaining ]] ]

\* ---------------------------------------------------------------- two runs, same ticks
Runs == {1, 2}

\* time.sleep(all_red_time) suspends for at least all_red_time; how much longer
\* is up to the scheduler.  In whole seconds: exactly, or one second more.
SleepDurations(cfg) == {cfg.all_red_time, cfg.all_red_time + 1}

InitReplay ==
    /\ replay_runs = [r \in Runs |-> NewController(DefaultConfig, ReplayLanes)]
    /\ replay_time = 0

\* Both runs are fed the same tick: update(lanes) reads the clock as the same
\* current_time in both.  The next tick comes after both calls have returned.
ReplayTick ==
    \E dt \in TickSteps : \E lanes \in Analyses(ReplayLanes) :
    \E slept \in [Runs -> SleepDurations(DefaultConfig)] :
        LET current_time == replay_time + dt
            result == [r \in Runs |->
                          UpdateResult(DefaultConfig, replay_runs[r], current_time,
                                       slept[r], lanes)]
        IN  /\ current_time + DefaultConfig.all_red_time + 1 <= ReplayMaxTime
            /\ replay_runs' = result
            /\ replay_time' = Max(result[1].clock, result[2].clock)

ReplayParked ==
    /\ replay_runs = [r \in Runs |-> NewController(DefaultConfig, 1)]
    /\ replay_time = 0

\* ---------------------------------------------------------------- emergency_priority off
\* config = {'emergency_priority': False}
FlagOffConfig == [DefaultConfig EXCEPT !.emergency_priority = FALSE]

\* The analysis of the same frame with its emergency vehicles taken for
\* ordinary ones: the counts and trends stay, every emergency count is 0.
WithoutEmergencies(lanes) ==
    [l \in DOMAIN lanes |-> [lanes[l] EXCEPT !.emergency = 0]]

InitFlagOff ==
    /\ replay_runs = [r \in Runs |-> NewController(FlagOffConfig, FlagOffLanes)]
    /\ replay_time = 0

\* Run 1 is fed the analysis as it is, run 2 the same analysis without its
\* emergencies; both read the clock alike and sleep all_red_time exactly.
FlagOffTick ==
    \E dt \in TickSteps : \E lanes \in Analyses(FlagOffLanes) :
        LET current_time == replay_time + dt
            result == [r \in Runs |->
                          UpdateResult(FlagOffConfig, replay_runs[r], current_time,
                                       FlagOffConfig.all_red_time,
                                       IF r = 1 THEN lanes ELSE WithoutEmergencies(lanes))]
        IN  /\ current_time + FlagOffConfig.all_red_time <= ReplayMaxTime
            /\ replay_runs' = result
            /\ replay_time' = result[1].clock

\* ================================================================ the controller for ever
\* update compares clock readings only with the cycle_start of the active lane,
\* and every lane's cycle_start is rewritten when the lane is activated.  For a
\* controller that runs without end the times are therefore kept relative to
\* the last clock reading: after each update the clock reads 0, the phase of the
\* active lane began cycle_start <= 0 seconds ago, and the cycle_start of the
\* other lanes, which is not read before it is rewritten, is kept at 0.  A phase
\* older than every duration update compares it with (green times are at most
\* max_green_time or emergency_green_time) is kept at that age.
Horizon(cfg) ==
    Max(Max(cfg.max_green_time, cfg.emergency_green_time),
        Max(cfg.min_green_time, cfg.yellow_time))

Rebase(cfg, st) ==
    [l \in DOMAIN st.signals |->
        [st.signals[l] EXCEPT
            !.cycle_start = IF l = st.active_lane
                            THEN Max(@ - st.clock, 0 - Horizon(cfg))
                            ELSE 0]]

\* The inputs fed to the endless controller: an empty lane, a dense lane, an
\* emergency vehicle.
ForEverInputs ==
    { [emergency |-> 0, current |-> 0,  trend |-> "stable"],
      [emergency |-> 0, current |-> 30, trend |-> "stable"],
      [emergency |-> 1, current |-> 0,  trend |-> "stable"] }

AnalysesForEver ==
    [n \in 1 .. MaxLanes |->
        [em \in (0 .. (n - 1)) \cup {NoLane} |->
            { lanes \in [0 .. (n - 1) -> ForEverInputs] : FirstEmergencyLane(lanes) = em }]]

\* update(lanes), dt seconds after the last clock reading, for ever
updateForEver(dt, lanes) ==
    LET em       == FirstEmergencyLane(lanes)
        accepted == EmergencyAccepted(config, active_lane, em)
        result   == UpdateResult(config,
                                 ControllerState(signals, active_lane, cycle_count, now),
                                 now + dt, config.all_red_time, lanes)
    IN  /\ signals' = Rebase(config, result)
        /\ active_lane' = result.active_lane
        /\ cycle_count' = Min(result.cycle_count, MaxCycles)
        /\ now' = 0
        /\ next_lane' = IF accepted THEN em ELSE next_lane
        /\ emergency_mode' = (emergency_mode \/ accepted)
        /\ UNCHANGED <<num_lanes, config, pending_request, served_request, granted_input,
                       preempted_at>>

\* One call of update by the frame loop; the loop never ends.
TickForEver ==
    \E dt \in TickSteps : \E em \in Lanes \cup {NoLane} :
        IF ReachesSwitch(dt, em)
        THEN \E lanes \in AnalysesForEver[num_lanes][em] : updateForEver(dt, lanes)
        ELSE updateForEver(dt, AnalysisWith(num_lanes, em))

\* ---------------------------------------------------------------- steady traffic
\* What the analysis says of a lane when the traffic does not change: a count
\* above zero, no emergency, and (the history being constant) a stable trend.
SteadyInputs ==
    { [emergency |-> 0, current |-> c, trend |-> "stable"] : c \in {10, 20, 30} }

InitSteady ==
    /\ InitController
    /\ num_lanes >= 2
    /\ steady_lanes \in [Lanes -> SteadyInputs]

\* One call of update by a frame loop that sees the same traffic at every tick.
TickSteady ==
    /\ \E dt \in TickSteps : updateForEver(dt, steady_lanes)
    /\ UNCHANGED steady_lanes

SteadyParked == steady_lanes = AnalysisWith(1, NoLane)

\* ================================================================ construction
\* Configurations a caller may pass to SignalController(config=...): the default,
\* one with min_green_time above max_green_time, one with a negative yellow_time.
SuppliedConfigs ==
    { DefaultConfig,
      [DefaultConfig EXCEPT !.min_green_time = 60, !.max_green_time = 10],
      [DefaultConfig EXCEPT !.yellow_time = -1] }

\* SignalController.__init__(num_lanes, config): self.config.update(config), then
\* the signals; nothing is checked.
InitSupplied ==
    /\ num_lanes \in 1 .. MaxLanes
    /\ config \in SuppliedConfigs
    /\ now = 0
    /\ signals = NewController(config, num_lanes).signals
    /\ active_lane = 0
    /\ cycle_count = 0
    /\ next_lane = NoLane
    /\ emergency_mode = FALSE
    /\ pending_request = NoLane
    /\ served_request = NoLane
    /\ granted_input = [emergency |-> 0, current |-> 0, trend |-> "stable"]
    /\ preempted_at = NoTime

\* ================================================================ selections
\* What the analysis may say of a lane when a selection is made: densities that
\* tie under the trend bonus (35 * 1.2 = 42) and one above the emergency score.
SelectionInputs ==
    [ emergency : {0, 1},
      current   : {0, 35, 42, 1200},
      trend     : {"stable", "increasing"} ]

InitSelection ==
    \E n \in 1 .. MaxLanes :
        /\ selection \in [ lanes    : [0 .. (n - 1) -> SelectionInputs],
                            finished : 0 .. (n - 1),
                            result   : {NoLane} ]

\* next_lane = max(priorities, key=priorities.get)
Select ==
    /\ selection.result = NoLane
    /\ selection' = [selection EXCEPT
                        !.result = SelectNextLane(selection.lanes, selection.finished)]

SelectionParked ==
    selection = [ lanes    |-> AnalysisWith(1, NoLane),
                  finished |-> 0,
                  result   |-> NoLane ]

\* ================================================================ TrafficAnalyzer
\* ---------------------------------------------------------------- inputs
AnLanes == 0 .. (AnalyzerLanes - 1)

\* The counts a lane may be given: np.mean and the products older * 1.2 and
\* older * 0.8 are exact in float64 for histories of these counts, so the
\* comparisons of calculate_density come out as in exact arithmetic.
Samples == <<0, 5, 10>>

\* len(lane_detections[lane_id]) for every lane, in one frame: each lane is given
\* a count of its own.
FrameCounts ==
    { [l \in AnLanes |-> Samples[((s + l) % Len(Samples)) + 1]] : s \in 0 .. (Len(Samples) - 1) }

\* ---------------------------------------------------------------- the deque
\* A deque that, once full, refuses what it is given.
DequeAppend_DropNewest(h, x, maxlen) ==
    IF Len(h) < maxlen THEN Append(h, x) ELSE h

\* deque(maxlen=history_size).append(x): a full deque drops its oldest item.
DequeAppend(h, x, maxlen) ==
    IF Len(h) < maxlen THEN Append(h, x) ELSE Append(Tail(h), x)

RECURSIVE SumSeq(_)
SumSeq(h) == IF h = <<>> THEN 0 ELSE Head(h) + SumSeq(Tail(h))

RECURSIVE MaxSeq(_)
MaxSeq(h) == IF Len(h) = 1 THEN Head(h) ELSE Max(Head(h), MaxSeq(Tail(h)))

\* history[-5:] and history[:-5]
LastFive(h) == SubSeq(h, Max(1, Len(h) - 4), Len(h))
AllButLastFive(h) == SubSeq(h, 1, Len(h) - 5)

\* ---------------------------------------------------------------- calculate_density
\* A trend that counts a recent mean on the threshold as a change.
Trend_Inclusive(history) ==
    IF Len(history) >= 5
    THEN LET recent_sum == SumSeq(LastFive(history))
             older_sum  == SumSeq(AllButLastFive(history))
             older_len  == Len(history) - 5
         IN  IF older_len = 0
             THEN "stable"
             ELSE IF recent_sum * older_len * 10 >= older_sum * 5 * 12
                  THEN "increasing"
                  ELSE IF recent_sum * older_len * 10 <= older_sum * 5 * 8
                       THEN "decreasing"
                       ELSE "stable"
    ELSE "stable"

\* The trend of calculate_density.  recent = mean(history[-5:]) and
\* older = mean(history[:-5]) are compared as recent > older * 1.2 and
\* recent < older * 0.8, here with the denominators multiplied out.  With
\* exactly 5 counts older is the mean of nothing, nan, and both comparisons
\* are false.
Trend(history) ==
    IF Len(history) >= 5
    THEN LET recent_sum == SumSeq(LastFive(history))
             older_sum  == SumSeq(AllButLastFive(history))
             older_len  == Len(history) - 5
         IN  IF older_len = 0
             THEN "stable"
             ELSE IF recent_sum * older_len * 10 > older_sum * 5 * 12
                  THEN "increasing"
                  ELSE IF recent_sum * older_len * 10 < older_sum * 5 * 8
                       THEN "decreasing"
                       ELSE "stable"
    ELSE "stable"

\* calculate_density(lane_id) for the lane whose deque is history; the average
\* is the pair <<sum, number of counts>>.
calculate_density(history) ==
    IF history = <<>>
    THEN [ current |-> 0, average |-> <<0, 1>>, max |-> 0, trend |-> "stable" ]
    ELSE [ current |-> history[Len(history)],
           average |-> <<SumSeq(history), Len(history)>>,
           max     |-> MaxSeq(history),
           trend   |-> Trend(history) ]

\* ---------------------------------------------------------------- get_congestion_level
DefaultThresholds == [low |-> 5, medium |-> 15, high |-> 30]

\* get_congestion_level(lane_id, thresholds) for the lane whose deque is history.
get_congestion_level(history, thresholds) ==
    LET current == calculate_density(history).current
    IN  IF current = 0
        THEN "none"
        ELSE IF current < thresholds.low
             THEN "low"
             ELSE IF current < thresholds.medium
                  THEN "medium"
                  ELSE "high"

\* ---------------------------------------------------------------- update
NoLevel == [lane |-> NoLane, thresholds |-> DefaultThresholds, level |-> "None"]

\* TrafficAnalyzer(num_lanes, history_size)
InitAnalyzer ==
    /\ history_size = HistorySize
    /\ lane_history = [l \in AnLanes |-> <<>>]
    /\ lane_info = [l \in AnLanes |-> [vehicles |-> 0, density |-> calculate_density(<<>>)]]
    /\ congestion = NoLevel
    /\ arrived = [l \in AnLanes |-> <<>>]

\* TrafficAnalyzer.update(detections, frame_shape), counts[l] of the detections
\* falling in lane l.
analyzer_update(counts) ==
    /\ \A l \in AnLanes : Len(arrived[l]) < MaxFrames
    /\ lane_history' = [l \in AnLanes |->
                            DequeAppend(lane_history[l], counts[l], history_size)]
    /\ lane_info' = [l \in AnLanes |->
                        [ vehicles |-> counts[l],
                          density  |-> calculate_density(lane_history'[l]) ]]
    /\ arrived' = [l \in AnLanes |-> Append(arrived[l], counts[l])]
    /\ UNCHANGED <<history_size, congestion>>

AnalyzeFrame == \E counts \in FrameCounts : analyzer_update(counts)

AnalyzerParked == InitAnalyzer

\* ---------------------------------------------------------------- congestion levels
\* The thresholds a caller passes: none (the default), or its own.
ThresholdChoices == {DefaultThresholds, [low |-> 10, medium |-> 20, high |-> 25]}

\* The first frame, with any count in each lane.
AnalyzeFirstFrame ==
    /\ \A l \in AnLanes : arrived[l] = <<>>
    /\ \E counts \in [AnLanes -> Densities] : analyzer_update(counts)

\* level = analyzer.get_congestion_level(lane_id, thresholds)
GetCongestionLevel ==
    \E l \in AnLanes, th \in ThresholdChoices :
        /\ congestion' = [ lane       |-> l,
                           thresholds |-> th,
                           level      |-> get_congestion_level(lane_history[l], th) ]
        /\ UNCHANGED <<history_size, lane_history, lane_info, arrived>>


\* ---------------------------------------------------------------- specifications
vars == <<varsSC, varsGT, varsEP, varsReplay, varsSel, varsTA, varsSteady>>

\* The parts of the state a specification does not exercise stay as constructed.
ControllerParked ==
    /\ InitController
    /\ num_lanes = 1
    /\ config = DefaultConfig

GreenTimeParked ==
    /\ InitGreenTime
    /\ gt_config = DefaultConfig

\* The signal controller driven by the frame loop.
Init == InitController /\ GreenTimeParked /\ InitOverrides /\ ReplayParked /\ SelectionParked /\ AnalyzerParked /\ SteadyParked
Next == Tick /\ UNCHANGED <<varsGT, varsEP, varsReplay, varsSel, varsTA, varsSteady>>
Spec == Init /\ [][Next]_vars

\* calculate_green_time over configurations and densities.
InitGT == InitGreenTime /\ ControllerParked /\ InitOverrides /\ ReplayParked /\ SelectionParked /\ AnalyzerParked /\ SteadyParked
NextGT == EvaluateGreenTime /\ UNCHANGED <<varsSC, varsEP, varsReplay, varsSel, varsTA, varsSteady>>
SpecGreenTime == InitGT /\ [][NextGT]_vars

\* The priority system with its calls one at a time: each call runs to its end
\* before the next begins (no await of it gives way to another call).
InitEP == InitOverrides /\ ControllerParked /\ GreenTimeParked /\ ReplayParked /\ SelectionParked /\ AnalyzerParked /\ SteadyParked
NextSerial == OverridesNext(TRUE) /\ UNCHANGED <<varsSC, varsGT, varsReplay, varsSel, varsTA, varsSteady>>
SpecOverrides == InitEP /\ [][NextSerial]_vars

\* The priority system on the event loop: a call gives way at each await of a
\* database operation, and other calls run meanwhile.
NextAsync == OverridesNext(FALSE) /\ UNCHANGED <<varsSC, varsGT, varsReplay, varsSel, varsTA, varsSteady>>
SpecOverridesAsync == InitEP /\ [][NextAsync]_vars

\* Two runs of one controller, fed the same sequence of ticks.
InitTwoRuns == InitReplay /\ ControllerParked /\ GreenTimeParked /\ InitOverrides /\ SelectionParked /\ AnalyzerParked /\ SteadyParked
NextTwoRuns == ReplayTick /\ UNCHANGED <<varsSC, varsGT, varsEP, varsSel, varsTA, varsSteady>>
SpecReplay == InitTwoRuns /\ [][NextTwoRuns]_vars

\* The selection of switch_to_next_lane over analyses and finished lanes.
InitSel == InitSelection /\ ControllerParked /\ GreenTimeParked /\ InitOverrides /\ ReplayParked /\ AnalyzerParked /\ SteadyParked
NextSel == Select /\ UNCHANGED <<varsSC, varsGT, varsEP, varsReplay, varsTA, varsSteady>>
SpecSelection == InitSel /\ [][NextSel]_vars

\* The controller driven by a frame loop that never ends: update is called again
\* and again, each time at a later clock reading.
NextForEver == TickForEver /\ UNCHANGED <<varsGT, varsEP, varsReplay, varsSel, varsTA, varsSteady>>
InitForEver == Init /\ num_lanes <= ForEverLanes
SpecForEver == InitForEver /\ [][NextForEver]_vars /\ WF_vars(NextForEver)

\* The controller constructed with whatever configuration it is given.
InitAnyConfig == InitSupplied /\ GreenTimeParked /\ InitOverrides /\ ReplayParked /\ SelectionParked /\ AnalyzerParked /\ SteadyParked
SpecAnyConfig == InitAnyConfig /\ [][Next]_vars

\* The analyzer fed frame after frame.
InitTA == InitAnalyzer /\ ControllerParked /\ GreenTimeParked /\ InitOverrides /\ ReplayParked /\ SelectionParked /\ SteadyParked
NextTA == AnalyzeFrame /\ UNCHANGED <<varsSC, varsGT, varsEP, varsReplay, varsSel, varsSteady>>
SpecAnalyzer == InitTA /\ [][NextTA]_vars

\* get_congestion_level asked of an analyzer that has seen at most one frame.
NextLevels == (AnalyzeFirstFrame \/ GetCongestionLevel) /\ UNCHANGED <<varsSC, varsGT, varsEP, varsReplay, varsSel, varsSteady>>
SpecCongestion == InitTA /\ [][NextLevels]_vars

\* Two runs of a controller with emergency_priority off, one fed the emergencies
\* of each frame and one not.
InitOff == InitFlagOff /\ ControllerParked /\ GreenTimeParked /\ InitOverrides /\ SelectionParked /\ AnalyzerParked /\ SteadyParked
NextOff == FlagOffTick /\ UNCHANGED <<varsSC, varsGT, varsEP, varsSel, varsTA, varsSteady>>
SpecFlagOff == InitOff /\ [][NextOff]_vars

\* The controller driven for ever by a frame loop that sees the same traffic at
\* every tick.
InitConstant == InitSteady /\ GreenTimeParked /\ InitOverrides /\ ReplayParked /\ SelectionParked /\ AnalyzerParked
NextSteady == TickSteady /\ UNCHANGED <<varsGT, varsEP, varsReplay, varsSel, varsTA>>
SpecSteady == InitConstant /\ [][NextSteady]_vars /\ WF_vars(NextSteady)

\* ================================================================ claims
\* ---------------------------------------------------------------- C1
\* C1: in every reachable state of the controller at most one lane is GREEN or
\* YELLOW, and every other lane is RED (or ALL_RED).
C1_AtMostOneLaneOpen ==
    /\ Cardinality({l \in Lanes : signals[l].state \in {GREEN, YELLOW}}) <= 1
    /\ \A l \in Lanes :
          signals[l].state \notin {GREEN, YELLOW} => signals[l].state \in {RED, ALL_RED}

\* An emergency interjection and a lane switch have happened, with three lanes.
C1_Witness ==
    /\ num_lanes >= 3
    /\ emergency_mode
    /\ cycle_count >= 2
    /\ active_lane # 0
    /\ signals[active_lane].state = GREEN

\* ---------------------------------------------------------------- C2
\* C2: an emergency request for lane L (L not the active lane) makes L the lane
\* the next selection returns, however many ticks pass before that selection.
C2_EmergencyWinsNextSelection ==
    served_request # NoLane => active_lane = served_request

\* ---------------------------------------------------------------- C3
\* C3 as stated: a lane granted GREEN for its emergency is granted maxGreen.
C3_EmergencyGreenIsMaxGreen ==
    (cycle_count > 0 /\ granted_input.emergency > 0)
        => signals[active_lane].green_time = config.max_green_time * 10

\* C3 as amended: a lane selected while the analysis shows an emergency vehicle
\* in it is granted the configured emergency_green_time, whatever its density.
C3_EmergencyGreenIsEmergencyGreenTime ==
    (cycle_count > 0 /\ granted_input.emergency > 0)
        => signals[active_lane].green_time = config.emergency_green_time * 10

\* An empty lane was granted GREEN for its emergency vehicle.
C3_Witness ==
    /\ cycle_count > 0
    /\ granted_input.emergency > 0
    /\ granted_input.current = 0
    /\ signals[active_lane].state = GREEN

\* ---------------------------------------------------------------- C4
\* C4: with min_green_time <= max_green_time, calculate_green_time returns a value
\* within [min_green_time, max_green_time] for every density, in both modes.
C4_GreenTimeWithinBounds ==
    gt_density # NoDensity =>
        /\ gt_config.min_green_time * 10 <= gt_result
        /\ gt_result <= gt_config.max_green_time * 10

\* The upper bound bites: adaptive mode, a density far above the high threshold,
\* and min_green_time times the high multiplier above max_green_time.
C4_Witness ==
    /\ gt_config.adaptive_mode
    /\ gt_density = FarDensity
    /\ gt_config.min_green_time * gt_config.time_multipliers.high
          > gt_config.max_green_time * 10
    /\ gt_result = gt_config.max_green_time * 10

\* ---------------------------------------------------------------- sweeps, clears, requests
\* The step in which call t of operation op ends (returns or raises).
Ends(t, op) ==
    /\ tasks'[t].op = op
    /\ Finished(tasks'[t])
    /\ ~Finished(tasks[t])

\* The lane of an override
LaneOf(override_data) == <<override_data.location_id, override_data.direction>>

\* The stored overrides left unchanged by a step
Untouched(keys) ==
    \A k \in keys :
        /\ k \in DictKeys(active_overrides')
        /\ DictGet(active_overrides', k) = DictGet(active_overrides, k)

\* ---------------------------------------------------------------- C5
\* C5: a sweep that reads the clock as `now` removes exactly the overrides with
\* expires_at <= now, returns how many it removed and leaves every other override
\* unchanged; an override requested at T is kept by a sweep at T+59 and removed by
\* a sweep at T+61 (priority duration 60).
C5_SweepStep(t) ==
    LET swept_at == tasks'[t].current_time
        before   == DictKeys(active_overrides)
        kept     == {k \in before : DictGet(active_overrides, k).expires_at > swept_at}
    IN  /\ tasks'[t].pc = "done"
        /\ DictKeys(active_overrides') = kept
        /\ Untouched(kept)
        /\ tasks'[t].result.cleared = Cardinality(before \ kept)
        /\ \A k \in before :
              /\ swept_at = DictGet(active_overrides, k).started_at + 59
                    => k \in DictKeys(active_overrides')
              /\ swept_at = DictGet(active_overrides, k).started_at + 61
                    => k \notin DictKeys(active_overrides')

C5_SweepRemovesExactlyExpired ==
    [][\A t \in TaskIds : Ends(t, "sweep") => C5_SweepStep(t)]_vars

\* ---------------------------------------------------------------- C6
\* C6: after a sweep at a time later than an override's expires_at that
\* override is gone and no entry for its lane remains among the active overrides.
C6_Original_SweepStep(t) ==
    \A k \in DictKeys(active_overrides) :
        DictGet(active_overrides, k).expires_at < tasks'[t].current_time
            => /\ k \notin DictKeys(active_overrides')
               /\ \A o \in get_active_overrides(active_overrides') :
                     LaneOf(o.data) # LaneOf(DictGet(active_overrides, k))

C6_SweptLaneHasNoEntry ==
    [][\A t \in TaskIds : Ends(t, "sweep") => C6_Original_SweepStep(t)]_vars

\* ---------------------------------------------------------------- C7
\* C7 as stated: the collection holds at most one unexpired override per lane.
C7_OneUnexpiredOverridePerLane ==
    \A a, b \in get_active_overrides(active_overrides) :
        ( /\ LaneOf(a.data) = LaneOf(b.data)
          /\ a.data.expires_at > utcnow
          /\ b.data.expires_at > utcnow ) => a = b

\* The step in which request t stores its override.
Stores(t) == tasks[t].pc = "idle" /\ tasks'[t].op = "request" /\ tasks'[t].pc = "apply"

\* C7 as amended: a request for a lane is stored under its own id
\* (location, direction, time of the request) and leaves every override stored
\* under another id unchanged; unless an override of that lane with the same
\* request time is stored (it is overwritten), the collection grows by one entry,
\* also when the lane already has an unexpired override.
C7_RequestStep(t) ==
    LET id     == tasks'[t].id
        before == DictKeys(active_overrides)
        twin   == \E k \in before :
                      /\ LaneOf(DictGet(active_overrides, k)) = <<id[1], id[2]>>
                      /\ DictGet(active_overrides, k).started_at = utcnow
    IN  /\ Untouched(before \ {id})
        /\ DictKeys(active_overrides') = before \cup {id}
        /\ DictGet(active_overrides', id).expires_at = utcnow + priority_duration
        /\ ~twin => DictSize(active_overrides') = DictSize(active_overrides) + 1
        /\ twin => DictSize(active_overrides') = DictSize(active_overrides)

C7_RequestAddsItsOwnOverride ==
    [][\A t \in TaskIds : Stores(t) => C7_RequestStep(t)]_vars

\* Two unexpired overrides of one lane are stored.
C7_Witness ==
    \E a, b \in get_active_overrides(active_overrides) :
        /\ a # b
        /\ LaneOf(a.data) = LaneOf(b.data)
        /\ a.data.expires_at > utcnow
        /\ b.data.expires_at > utcnow

\* ---------------------------------------------------------------- C8
\* C8: while a sweep is between the start of its scan and the end of its
\* removals, no other call adds to or removes from the override collection.
C8_SweepSerialized ==
    [][\A t \in TaskIds :
          ( /\ tasks[t].op = "sweep"
            /\ tasks[t].pc = "clearing"
            /\ tasks'[t] = tasks[t] ) => active_overrides' = active_overrides]_vars

\* ---------------------------------------------------------------- C9
\* C9: a clear of an id that is not stored (unknown, already cleared, already
\* swept) returns false, raises nothing and leaves the collection unchanged; a
\* clear of a stored id removes exactly that override and returns true.
C9_ClearStep(t) ==
    LET id     == tasks'[t].id
        before == DictKeys(active_overrides)
    IN  /\ tasks'[t].pc = "done"
        /\ IF id \in before
           THEN /\ tasks'[t].result.success
                /\ DictKeys(active_overrides') = before \ {id}
                /\ Untouched(before \ {id})
           ELSE /\ ~tasks'[t].result.success
                /\ active_overrides' = active_overrides

C9_ClearIsIdempotent ==
    [][\A t \in TaskIds : Ends(t, "clear") => C9_ClearStep(t)]_vars

\* ---------------------------------------------------------------- C10
\* C10: every request is assigned an id different from every id assigned before,
\* so no request overwrites the stored override of another.
C10_OverrideIdsUnique ==
    Cardinality(issued) = requests

\* ================================================================ ticks of the controller
\* No phase boundary is reached by a tick at clock reading current_time: the
\* active lane is GREEN with less than its green_time elapsed, or YELLOW with
\* less than yellow_time elapsed.
NoBoundary(current_time) ==
    LET active_signal == signals[active_lane]
        time_elapsed  == current_time - active_signal.cycle_start
    IN  \/ active_signal.state = GREEN /\ time_elapsed * 10 < active_signal.green_time
        \/ active_signal.state = YELLOW /\ time_elapsed < config.yellow_time

\* The analyses without an emergency, for the current number of lanes
QuietAnalyses == AnalysesWith[num_lanes][NoLane]

\* ---------------------------------------------------------------- C11
\* C11: a tick that reaches no phase boundary, with no emergency in its input,
\* leaves every lane's state, phase start and planned duration, the active lane
\* and the cycle counter unchanged.
C11_QuietTickChangesNothing ==
    [][\A dt \in TickSteps :
          (NoBoundary(now + dt) /\ now' = now + dt) =>
              \A lanes \in QuietAnalyses :
                  update(dt, lanes) =>
                      /\ active_lane' = active_lane
                      /\ cycle_count' = cycle_count
                      /\ \A l \in Lanes :
                            /\ signals'[l].state = signals[l].state
                            /\ signals'[l].cycle_start = signals[l].cycle_start
                            /\ signals'[l].green_time = signals[l].green_time]_vars

\* A lane granted GREEN by a switch is part-way through its green phase: ticks
\* have passed since the switch and only its time_remaining has moved.
C11_Witness ==
    /\ cycle_count >= 1
    /\ signals[active_lane].state = GREEN
    /\ now > signals[active_lane].cycle_start
    /\ signals[active_lane].time_remaining > 0
    /\ signals[active_lane].time_remaining =
           signals[active_lane].green_time - (now - signals[active_lane].cycle_start) * 10

\* The action update and the function UpdateResult describe the same call.
UpdateMatchesUpdateResult ==
    [][\A dt \in TickSteps : (now' = now + dt \/ now' = now + dt + config.all_red_time) =>
          \A lanes \in Analyses(num_lanes) :
              update(dt, lanes) =>
                  ControllerState(signals', active_lane', cycle_count', now') =
                      UpdateResult(config,
                                   ControllerState(signals, active_lane, cycle_count, now),
                                   now + dt, config.all_red_time, lanes)]_vars

\* ---------------------------------------------------------------- C12
\* C12: two runs with the same configuration and start time, fed the same tick
\* times and the same inputs, return the same snapshot (active lane, cycle count,
\* state and time remaining of every lane) at every tick.
C12_ReplayGivesSameSnapshots ==
    Snapshot(replay_runs[1]) = Snapshot(replay_runs[2])

\* ---------------------------------------------------------------- C13
\* The score of a lane, in tenths: 1000 with an emergency, else its current
\* density, times 1.2 when the trend is increasing.
C13_Score(lanes, l) ==
    IF lanes[l].emergency > 0
    THEN 10000
    ELSE IF lanes[l].trend = "increasing"
         THEN lanes[l].current * 12
         ELSE lanes[l].current * 10

\* selected is the choice among the lanes other than finished.
C13_IsTheChoice(lanes, finished, selected) ==
    LET candidates == DOMAIN lanes \ {finished}
    IN  IF candidates = {}
        THEN selected = finished
        ELSE /\ selected \in candidates
             /\ \A m \in candidates : C13_Score(lanes, m) <= C13_Score(lanes, selected)
             /\ \A m \in candidates :
                   m < selected => C13_Score(lanes, m) < C13_Score(lanes, selected)

C14_Clamp(x, lo, hi) == IF x < lo THEN lo ELSE IF x > hi THEN hi ELSE x

\* The multiplier (tenths) for a density: high from thresholds.high on, medium
\* from thresholds.medium up to thresholds.high, low below.
C14_Multiplier(cfg, d) ==
    IF d >= cfg.density_thresholds.high
    THEN cfg.time_multipliers.high
    ELSE IF cfg.density_thresholds.medium <= d /\ d < cfg.density_thresholds.high
         THEN cfg.time_multipliers.medium
         ELSE cfg.time_multipliers.low

\* C14: calculate_green_time returns min_green in non-adaptive mode and
\* clamp(min_green * m, min_green, max_green) in adaptive mode, m being the
\* multiplier of the density's level (min_green 10, max_green 60, density 20
\* gives 15).
C14_GreenTimeIsClampedProduct ==
    gt_density # NoDensity =>
        /\ ~gt_config.adaptive_mode => gt_result = gt_config.min_green_time * 10
        /\ gt_config.adaptive_mode =>
              gt_result = C14_Clamp(gt_config.min_green_time * C14_Multiplier(gt_config, gt_density),
                                    gt_config.min_green_time * 10,
                                    gt_config.max_green_time * 10)
        /\ ( /\ gt_config = DefaultConfig
              /\ gt_density = 20 ) => gt_result = 150

\* The default configuration at density 20 (medium): 15 seconds.
C14_Witness ==
    /\ gt_config = DefaultConfig
    /\ gt_density = 20
    /\ gt_result = 150

\* ---------------------------------------------------------------- C15
\* A step of the endless controller in which switch_to_next_lane ran: the active
\* lane is GREEN since the clock reading the step ends with.
C15_Switched ==
    /\ signals'[active_lane'].state = GREEN
    /\ signals'[active_lane'].cycle_start = now'

\* C15: with update called at ever later times, whatever the inputs, some lane
\* is GREEN again and again; and every selection makes active a lane other than
\* the one that just finished whenever there is another lane.
C15_NeverStalls ==
    /\ []<>(\E l \in Lanes : signals[l].state = GREEN)
    /\ [][(C15_Switched /\ num_lanes >= 2) => active_lane' # active_lane]_vars

\* A single lane, which has no other lane to hand over to, is GREEN after it has
\* finished several times.
C15_Witness ==
    /\ num_lanes = 1
    /\ cycle_count = MaxCycles
    /\ signals[0].state = GREEN

\* ---------------------------------------------------------------- C16
\* min_green_time <= max_green_time and no negative duration
C16_ConfigValid(cfg) ==
    /\ cfg.min_green_time <= cfg.max_green_time
    /\ cfg.min_green_time >= 0
    /\ cfg.max_green_time >= 0
    /\ cfg.yellow_time >= 0
    /\ cfg.all_red_time >= 0
    /\ cfg.emergency_green_time >= 0

\* C16: a configuration with min_green_time > max_green_time or a negative
\* duration is rejected at construction: no controller exists with such a
\* configuration, so no tick and no green time is ever computed under one.
C16_BadConfigIsRejected ==
    C16_ConfigValid(config)

\* ---------------------------------------------------------------- C17
\* The end of a request that had emergency vehicles to report: it returns an
\* emergency override (green_time max_green_time, clear_time 10) that expires
\* priority_duration after the request, stored under the id it returns.
C17_RequestStep(t) ==
    LET id     == tasks[t].id
        result == tasks'[t].result
    IN  /\ tasks'[t].pc = "done"
        /\ result.override_id = id
        /\ result.green_time = backend_max_green_time
        /\ result.clear_time = 10
        /\ result.expires_at = id[3] + priority_duration
        /\ id \in DictKeys(active_overrides')
        /\ DictGet(active_overrides', id).expires_at = result.expires_at
        /\ DictGet(active_overrides', id).override_config.green_time = result.green_time
        /\ DictGet(active_overrides', id).override_config.clear_time = result.clear_time

\* C17: a request stores and returns an override with green time max_green_time
\* and clear time 10 (emergency), expiring priority_duration after the request,
\* and the id it returns is the key the override is stored under.
C17_RequestReturnsStoredOverride ==
    [][\A t \in TaskIds :
          (Ends(t, "request") /\ tasks[t].pc = "log") => C17_RequestStep(t)]_vars

\* ---------------------------------------------------------------- C18
\* C18: a lane whose GREEN is cut short by an emergency in another lane is
\* YELLOW at the end of that tick (a tick observes it YELLOW), and it turns RED
\* no sooner than yellow_time after the tick that preempted it.
C18_PreemptedYellowLastsYellowTime ==
    [][cycle_count' = cycle_count + 1 =>
          /\ signals[active_lane].state # GREEN
          /\ preempted_at # NoTime =>
                (now' - config.all_red_time) - preempted_at >= config.yellow_time]_vars

\* ---------------------------------------------------------------- C19
\* C19: GREEN is never handed from lane to lane directly, with or without
\* preemption: a lane becomes GREEN only in a switch, whose finished lane was
\* YELLOW (left YELLOW by an earlier tick, or set YELLOW by handle_emergency in
\* this one) and is RED afterwards like every other lane, and the new GREEN
\* starts at least all_red_time after the tick that ended the YELLOW.
C19_PassedThroughYellow ==
    \/ signals[active_lane].state = YELLOW
    \/ /\ signals[active_lane].state = GREEN
       /\ handle_emergency(config, signals, active_lane,
                           served_request')[active_lane].state = YELLOW

C19_NoDirectHandover ==
    [][\A l \in Lanes :
          (signals'[l].state = GREEN /\ (signals[l].state # GREEN \/ active_lane' # active_lane)) =>
              /\ cycle_count' = cycle_count + 1
              /\ active_lane' = l
              /\ C19_PassedThroughYellow
              /\ \A m \in Lanes \ {l} : signals'[m].state = RED
              /\ signals'[l].cycle_start = now'
              /\ \E dt \in TickSteps : now' - (now + dt) >= config.all_red_time]_vars

C19_Witness ==
    /\ num_lanes >= 2
    /\ cycle_count >= 1
    /\ served_request = active_lane
    /\ signals[active_lane].state = GREEN
    /\ signals[active_lane].cycle_start = now
    /\ \A m \in Lanes \ {active_lane} : signals[m].state = RED

\* ---------------------------------------------------------------- C20
\* C20: without preemption a tick turns the GREEN active lane YELLOW exactly
\* when the time since its GREEN began has reached its green_time, and then
\* restarts the phase at the tick's clock reading; until then the lane stays
\* GREEN with its phase start and green_time untouched, so no GREEN is shorter
\* than granted; and a YELLOW begun this way ends no sooner than yellow_time
\* after it began.
C20_NotPreempted ==
    /\ cycle_count' = cycle_count
    /\ pending_request' = NoLane

C20_GreenStep ==
    LET old == signals[active_lane]
        new == signals'[active_lane]
        due == (now' - old.cycle_start) * 10 >= old.green_time
    IN  /\ active_lane' = active_lane
        /\ new.green_time = old.green_time
        /\ IF due
           THEN new.state = YELLOW /\ new.cycle_start = now'
           ELSE new.state = GREEN /\ new.cycle_start = old.cycle_start

C20_YellowEnds ==
    (now' - config.all_red_time) - signals[active_lane].cycle_start >= config.yellow_time

C20_GreenRunsItsGreenTime ==
    [][/\ (signals[active_lane].state = GREEN /\ C20_NotPreempted) => C20_GreenStep
       /\ (/\ signals[active_lane].state = YELLOW
           /\ preempted_at = NoTime
           /\ cycle_count' = cycle_count + 1) => C20_YellowEnds
       /\ cycle_count' = cycle_count + 1 =>
              signals'[active_lane'].cycle_start = now']_vars

C20_Witness ==
    /\ signals[active_lane].state = YELLOW
    /\ preempted_at = NoTime
    /\ pending_request = NoLane
    /\ signals[active_lane].cycle_start = now
    /\ cycle_count >= 1

\* ================================================================ claims: what is reported active
\* ---------------------------------------------------------------- C21
\* C21: at every moment every override that get_active_overrides reports is
\* unexpired (the clock reads less than its expires_at), whether or not a sweep
\* has run since it expired; cleared overrides are not reported.
C21_ReportedAreUnexpired ==
    \A o \in get_active_overrides(active_overrides) :
        /\ utcnow < o.data.expires_at
        /\ o.override_id \in issued

\* ================================================================ claims: the analyzer
\* ---------------------------------------------------------------- C22
\* The means of calculate_density as fractions <<numerator, denominator>>.
C22_Recent(h) == <<SumSeq(LastFive(h)), 5>>
C22_Older(h) == <<SumSeq(AllButLastFive(h)), Len(h) - 5>>
\* a * x < b * y for fractions x, y with positive denominators
C22_Less(a, x, b, y) == a * x[1] * y[2] < b * y[1] * x[2]

\* C22 as stated: the trend a lane is given is stable with fewer than 5 counts;
\* otherwise increasing if r >= 1.2 o, decreasing if r <= 0.8 o, else stable
\* (r the mean of the last 5 counts, o the mean of the older ones).
C22_TrendInclusive ==
    \A l \in AnLanes :
        LET h == lane_history[l]
            t == lane_info[l].density.trend
        IN  /\ Len(h) < 5 => t = "stable"
            /\ Len(h) > 5 =>
                  t = IF ~C22_Less(10, C22_Recent(h), 12, C22_Older(h))
                      THEN "increasing"
                      ELSE IF ~C22_Less(8, C22_Older(h), 10, C22_Recent(h))
                           THEN "decreasing"
                           ELSE "stable"

\* C22, amended: the trend is stable with at most 5 counts (with exactly 5
\* there is no older count to compare with); otherwise increasing if
\* r > 1.2 o, decreasing if r < 0.8 o, and stable otherwise, the thresholds
\* r = 1.2 o and r = 0.8 o included.
C22_TrendStrict ==
    \A l \in AnLanes :
        LET h == lane_history[l]
            t == lane_info[l].density.trend
        IN  /\ Len(h) <= 5 => t = "stable"
            /\ Len(h) > 5 =>
                  /\ t = "increasing" <=> C22_Less(12, C22_Older(h), 10, C22_Recent(h))
                  /\ t = "decreasing" <=> C22_Less(10, C22_Recent(h), 8, C22_Older(h))
                  /\ t \in {"increasing", "decreasing", "stable"}

\* a lane on the threshold r = 1.2 o with o > 0
C22_Witness ==
    \E l \in AnLanes :
        /\ Len(lane_history[l]) = history_size
        /\ SumSeq(AllButLastFive(lane_history[l])) > 0
        /\ SumSeq(LastFive(lane_history[l])) * (Len(lane_history[l]) - 5) * 10
              = SumSeq(AllButLastFive(lane_history[l])) * 5 * 12
        /\ lane_info[l].density.trend = "stable"

\* ---------------------------------------------------------------- C23
\* C23: the congestion level of a lane is none when current < low, low when
\* low <= current < medium, medium when medium <= current < high, and high
\* otherwise, whatever the thresholds and the count.
C23_Level(current, thresholds) ==
    IF current < thresholds.low
    THEN "none"
    ELSE IF current < thresholds.medium
         THEN "low"
         ELSE IF current < thresholds.high
              THEN "medium"
              ELSE "high"

C23_LevelFollowsThresholds ==
    congestion.lane # NoLane =>
        congestion.level =
            C23_Level(lane_info[congestion.lane].density.current, congestion.thresholds)

\* ---------------------------------------------------------------- C24
\* C24: after any sequence of updates the history of each lane holds at most
\* history_size counts, exactly the last min(n, history_size) of the n counts
\* given for that lane, in the order they came; current is the last count and
\* max the largest count of the buffer.
C24_HistoryIsLatestWindow ==
    \A l \in AnLanes :
        LET h == lane_history[l]
            n == Len(arrived[l])
            d == lane_info[l].density
        IN  /\ Len(h) = Min(n, history_size)
            /\ h = SubSeq(arrived[l], n - Len(h) + 1, n)
            /\ n > 0 =>
                  /\ d.current = arrived[l][n]
                  /\ \E i \in DOMAIN h : d.max = h[i]
                  /\ \A i \in DOMAIN h : d.max >= h[i]

\* a lane whose largest count has been evicted
C24_Witness ==
    \E l \in AnLanes :
        /\ Len(arrived[l]) > history_size
        /\ Len(lane_history[l]) = history_size
        /\ lane_info[l].density.max < MaxSeq(arrived[l])

\* ================================================================ claims: the cycle counter
\* ---------------------------------------------------------------- C25
\* A lane is granted GREEN in this step.
C25_Grant == \E l \in Lanes : signals'[l].state = GREEN /\ signals[l].state # GREEN

\* What update does to the signals, the active lane and the clock does not
\* change when the counter is given another value.
C25_CounterIsNotRead ==
    \A dt \in TickSteps : \A em \in Lanes \cup {NoLane} :
        \A lanes \in (IF ReachesSwitch(dt, em)
                       THEN AnalysesWith[num_lanes][em]
                       ELSE {AnalysisWith(num_lanes, em)}) :
            LET here  == UpdateResult(config,
                             ControllerState(signals, active_lane, cycle_count, now),
                             now + dt, config.all_red_time, lanes)
                there == UpdateResult(config,
                             ControllerState(signals, active_lane, cycle_count + 5, now),
                             now + dt, config.all_red_time, lanes)
            IN  /\ there.signals = here.signals
                /\ there.active_lane = here.active_lane
                /\ there.clock = here.clock
                /\ there.cycle_count - here.cycle_count = 5

\* C25: the cycle counter starts at 0, never decreases, goes up by exactly one
\* in every step that grants a lane GREEN and is left alone by every other
\* step, so that it equals the number of grants so far; and no selection or
\* timing of update depends on its value.
C25_CounterCountsGrants ==
    /\ cycle_count = 0
    /\ [][IF C25_Grant
          THEN cycle_count' = cycle_count + 1
          ELSE cycle_count' = cycle_count]_vars
    /\ []C25_CounterIsNotRead

C25_Witness ==
    /\ cycle_count = 2
    /\ signals[active_lane].state = GREEN
    /\ signals[active_lane].cycle_start = now

\* ================================================================ claims: calls that interleave
\* ---------------------------------------------------------------- C26
\* C26: whichever way two clears of one stored id, or a clear and a sweep that
\* finds that id expired, interleave, every one of them completes without
\* raising: no clear ends in an exception, no sweep ends in the KeyError of
\* deleting an id that is gone, and no two calls both report the removal.
C26_ConcurrentRemovalsComplete ==
    /\ \A t \in TaskIds :
          /\ tasks[t].op = "clear" => tasks[t].pc # "raised"
          /\ tasks[t].op = "sweep" =>
                ~(tasks[t].pc = "raised" /\ tasks[t].result.status = "KeyError")
    /\ \A t, u \in TaskIds :
          ( /\ t # u
            /\ tasks[t].op = "clear" /\ tasks[t].pc = "done"
            /\ tasks[u].op = "clear" /\ tasks[u].pc = "done"
            /\ tasks[t].id = tasks[u].id
            /\ tasks[t].id \notin DictKeys(active_overrides) )
          => ~(tasks[t].result.success /\ tasks[u].result.success)

\* ---------------------------------------------------------------- C27
\* C27: a request with a non-empty emergency list never ends in an exception,
\* whatever sweeps, clears and other requests run during its awaits, and what
\* it returns is status emergency_override_active with the id it stored its
\* override under and that override's expires_at (request time + priority
\* duration).
C27_RequestAlwaysCompletes ==
    \A t \in TaskIds :
        (tasks[t].op = "request" /\ tasks[t].id # NoId) =>
            /\ tasks[t].pc # "raised"
            /\ tasks[t].pc = "done" =>
                  /\ tasks[t].result.status = "emergency_override_active"
                  /\ tasks[t].result.override_id = tasks[t].id
                  /\ tasks[t].result.expires_at = tasks[t].id[3] + priority_duration

\* ================================================================ claims: the persisted flag
\* ---------------------------------------------------------------- C28
\* C28: no step turns the persisted emergency_override flag of a location off
\* while an override of that location is still stored afterwards: removing one
\* override leaves the flag on as long as another override of the location
\* remains in active_overrides.
C28_FlagStaysOnWhileStored ==
    [][\A loc \in Locations :
          ( /\ db_signals[loc].emergency_override
            /\ \E o \in get_active_overrides(active_overrides') :
                  o.data.location_id = loc )
          => db_signals'[loc].emergency_override]_vars

\* ================================================================ claims: emergency_priority off
\* ---------------------------------------------------------------- C29
\* C29: with emergency_priority off the emergency counts of the input change
\* nothing: fed the same ticks and densities, the run that is given the
\* emergencies has the same lane states, the same active lane and the same
\* granted green times as the run that is given none.
C29_EmergenciesIgnoredWhenOff ==
    /\ replay_runs[1].active_lane = replay_runs[2].active_lane
    /\ \A l \in DOMAIN replay_runs[1].signals :
          /\ replay_runs[1].signals[l].state = replay_runs[2].signals[l].state
          /\ replay_runs[1].signals[l].green_time = replay_runs[2].signals[l].green_time

\* ================================================================ claims: steady traffic
\* ---------------------------------------------------------------- C30
\* C30: with two lanes or more, the same nonzero count in the input of every
\* tick for each lane, no emergencies, and ticks that keep coming, every lane
\* is GREEN at some time.
C30_EveryLaneGetsGreen ==
    \A l \in 0 .. (MaxLanes - 1) :
        <>(l < num_lanes => signals[l].state = GREEN)

====
